---- MODULE Spec2Model ----
(***************************************************************************)
(* Model of tools/fix_generated_opcodes.py: the opcode symbol              *)
(* synchronisation script.  A file's text is a sequence of lexical units;  *)
(* every unit is the string it stands for, so that the regular-expression  *)
(* searches, line splitting, stripping and substitutions of the script are *)
(* carried out on the text itself.                                         *)
(***************************************************************************)
EXTENDS Integers, Sequences, FiniteSets, TLC

VARIABLES opcode_file, gen_file, parser_file, pc, run, names, index_to_name,
          gtext, ptext, written, log, exitCode

vars == <<opcode_file, gen_file, parser_file, pc, run, names, index_to_name,
          gtext, ptext, written, log, exitCode>>

\* ---------------------------------------------------------------- bounds
MaxLines == 3
MaxPieces == 4
MaxParserLen == 5
MaxRuns == 2

\* ------------------------------------------------------------ text units
NL == "\n"
SP == " "
WS == {SP, NL}
ENUM == "enum class Opcode"
LBRACE == "{"
CLOSE == "};"
COMMA == ","
COMMENT == "//"
HDR == "const std::unordered_map<Opcode, std::string> OPCODE_NAMES = {"
CAST == "static_cast<Opcode>("
DigitChars == <<"0", "1", "2", "3", "4", "5", "6", "7", "8", "9">>
Digits == {DigitChars[i] : i \in 1..10}
NoFile == <<"<absent>">>

\* ------------------------------------------------------- string helpers
\* Index of the first unit of s at or after position p that is in S, else 0.
IndexFrom(s, p, S) ==
    IF \E i \in p..Len(s) : s[i] \in S
    THEN CHOOSE i \in p..Len(s) : s[i] \in S /\ \A j \in p..(i-1) : s[j] \notin S
    ELSE 0

\* Index of the first unit of s at or after position p that is NOT in S, else 0.
IndexNotFrom(s, p, S) ==
    IF \E i \in p..Len(s) : s[i] \notin S
    THEN CHOOSE i \in p..Len(s) : s[i] \notin S /\ \A j \in p..(i-1) : s[j] \in S
    ELSE 0

RECURSIVE lstrip(_)
lstrip(s) == IF s # <<>> /\ Head(s) \in WS THEN lstrip(Tail(s)) ELSE s

RECURSIVE rstrip(_)
rstrip(s) == IF s # <<>> /\ s[Len(s)] \in WS THEN rstrip(SubSeq(s, 1, Len(s) - 1)) ELSE s

strip(s) == rstrip(lstrip(s))

RECURSIVE splitlines(_)
splitlines(s) ==
    IF s = <<>> THEN <<>>
    ELSE LET k == IndexFrom(s, 1, {NL})
         IN  IF k = 0 THEN <<s>>
             ELSE <<SubSeq(s, 1, k - 1)>> \o splitlines(SubSeq(s, k + 1, Len(s)))

\* str.split()[0] of a non-empty stripped line: the first run of non-blank units.
FirstPart(line) ==
    LET k == IndexFrom(line, 1, WS)
    IN  IF k = 0 THEN line ELSE SubSeq(line, 1, k - 1)

\* re.sub(r'//.*', '', line): a line loses everything from its first "//".
RemoveComment(line) ==
    LET k == IndexFrom(line, 1, {COMMENT})
    IN  IF k = 0 THEN line ELSE SubSeq(line, 1, k - 1)

\* --------------------------------------------------- enumeration search
\* re.search(r'enum class Opcode\s*\{([\s\S]*?)\};', text) tried at position p.
EnumMatchAt(text, p) ==
    /\ p \in 1..Len(text)
    /\ text[p] = ENUM
    /\ LET q == IndexNotFrom(text, p + 1, WS)
       IN  /\ q # 0
           /\ text[q] = LBRACE
           /\ IndexFrom(text, q + 1, {CLOSE}) # 0

\* The leftmost match, as [start, open, close], or start = 0 when there is none.
EnumSearchFrom(text, from) ==
    IF \E p \in from..Len(text) : EnumMatchAt(text, p)
    THEN LET p == CHOOSE p \in from..Len(text) :
                     EnumMatchAt(text, p) /\ \A j \in from..(p-1) : ~EnumMatchAt(text, j)
             q == IndexNotFrom(text, p + 1, WS)
         IN  [start |-> p, open |-> q, close |-> IndexFrom(text, q + 1, {CLOSE})]
    ELSE [start |-> 0, open |-> 0, close |-> 0]

EnumSearch(text) == EnumSearchFrom(text, 1)

EnumBody(text) ==
    LET m == EnumSearch(text) IN SubSeq(text, m.open + 1, m.close - 1)

\* lines = [l.strip() for l in body.splitlines() if l.strip()]
RECURSIVE StrippedLines(_)
StrippedLines(ls) ==
    IF ls = <<>> THEN <<>>
    ELSE (IF strip(Head(ls)) # <<>> THEN <<strip(Head(ls))>> ELSE <<>>)
         \o StrippedLines(Tail(ls))

\* the trailing comma is left in place
DropTrailingComma_keep(line) == line

\* if line.endswith(','): line = line[:-1]
DropTrailingComma(line) ==
    IF line # <<>> /\ line[Len(line)] = COMMA THEN SubSeq(line, 1, Len(line) - 1) ELSE line

\* One pass of the loop body: <<>> when the line is skipped, <<name>> otherwise.
NameOfLine(line0) ==
    LET line1 == strip(RemoveComment(line0))
    IN  IF line1 = <<>> THEN <<>>
        ELSE LET line2 == strip(DropTrailingComma(line1))
             IN  IF line2 = <<>> THEN <<>> ELSE <<FirstPart(line2)>>

RECURSIVE NamesOfLines(_)
NamesOfLines(ls) ==
    IF ls = <<>> THEN <<>> ELSE NameOfLine(Head(ls)) \o NamesOfLines(Tail(ls))

ExtractNames(text) == NamesOfLines(StrippedLines(splitlines(EnumBody(text))))

\* index_to_name = {i: names[i] for i in range(len(names))}
BuildTable(ns) == [i \in 0..(Len(ns) - 1) |-> ns[i + 1]]

\* ------------------------------------------------------ Reference Rewriter
DigitVal(d) == CHOOSE v \in 0..9 : DigitChars[v + 1] = d

\* int(match.group(1))
RECURSIVE int(_)
int(ds) ==
    IF ds = <<>> THEN 0
    ELSE int(SubSeq(ds, 1, Len(ds) - 1)) * 10 + DigitVal(ds[Len(ds)])

\* the text of an int inside an f-string
RECURSIVE str(_)
str(n) ==
    IF n < 10 THEN <<DigitChars[n + 1]>>
    ELSE str(n \div 10) \o <<DigitChars[(n % 10) + 1]>>

\* r'Opcode::OP_(\d+)' matches at position p of t
PlaceholderAt(t, p) ==
    /\ p >= 1
    /\ p + 3 <= Len(t)
    /\ t[p] = "Opcode" /\ t[p + 1] = "::" /\ t[p + 2] = "OP_"
    /\ t[p + 3] \in Digits

\* last position of the match starting at p (\d+ is greedy)
PlaceholderEnd(t, p) ==
    LET e == IndexNotFrom(t, p + 3, Digits)
    IN  IF e = 0 THEN Len(t) ELSE e - 1

Numeral(t, p) == SubSeq(t, p + 3, PlaceholderEnd(t, p))

\* an unknown index is given the last name of the table
repl_op_guess(numeral, table) ==
    LET num == int(numeral)
        last == Cardinality(DOMAIN table) - 1
    IN  IF num \in DOMAIN table
        THEN <<"Opcode", "::">> \o table[num]
        ELSE IF last >= 0
             THEN <<"Opcode", "::">> \o table[last]
             ELSE <<CAST>> \o str(num) \o <<")">>

\* the numeral is taken as a one-based position
repl_op_onebased(numeral, table) ==
    LET num == int(numeral)
    IN  IF (num - 1) \in DOMAIN table
        THEN <<"Opcode", "::">> \o table[num - 1]
        ELSE <<CAST>> \o str(num) \o <<")">>

repl_op(numeral, table) ==
    LET num == int(numeral)
    IN  IF num \in DOMAIN table
        THEN <<"Opcode", "::">> \o table[num]
        ELSE <<CAST>> \o str(num) \o <<")">>

\* re.sub(pattern, repl_op, gtext), scanning from position p
RECURSIVE SubFrom(_, _, _)
SubFrom(t, p, table) ==
    IF p > Len(t) THEN <<>>
    ELSE IF PlaceholderAt(t, p)
         THEN repl_op(Numeral(t, p), table) \o SubFrom(t, PlaceholderEnd(t, p) + 1, table)
         ELSE <<t[p]>> \o SubFrom(t, p + 1, table)

re_sub(t, table) == SubFrom(t, 1, table)

\* -------------------------------------------------- Debug Table Regenerator
\* re.search(r'const std::... OPCODE_NAMES = \{([\s\S]*?)\};', ptext)
ParserMatchAt(t, p) ==
    /\ p \in 1..Len(t)
    /\ t[p] = HDR
    /\ IndexFrom(t, p + 1, {CLOSE}) # 0

ParserSearchFrom(t, from) ==
    IF \E p \in from..Len(t) : ParserMatchAt(t, p)
    THEN LET p == CHOOSE p \in from..Len(t) :
                     ParserMatchAt(t, p) /\ \A j \in from..(p-1) : ~ParserMatchAt(t, j)
         IN  [start |-> p, end |-> IndexFrom(t, p + 1, {CLOSE})]
    ELSE [start |-> 0, end |-> 0]

ParserSearch(t) == ParserSearchFrom(t, 1)

\* f'    {{Opcode::{name}, "{name}"}},'
Entry(name) ==
    <<"    ", "{", "Opcode", "::">> \o name \o <<",", SP, "\"">> \o name \o <<"\"", "}", ",">>

\* the entries are built in reverse declaration order
RECURSIVE new_entries_reversed(_)
new_entries_reversed(ns) ==
    IF ns = <<>> THEN <<>> ELSE new_entries_reversed(Tail(ns)) \o <<Entry(Head(ns))>>

RECURSIVE new_entries(_)
new_entries(ns) ==
    IF ns = <<>> THEN <<>> ELSE <<Entry(Head(ns))>> \o new_entries(Tail(ns))

\* '\n'.join(lines)
RECURSIVE join(_)
join(ls) ==
    IF ls = <<>> THEN <<>>
    ELSE IF Len(ls) = 1 THEN Head(ls)
    ELSE Head(ls) \o <<NL>> \o join(Tail(ls))

new_block(ns) == <<HDR, NL>> \o join(new_entries(ns)) \o <<NL, CLOSE>>

\* the block is taken to end at the last closing delimiter of the file
Splice_greedy(t, m2, block) ==
    LET last == CHOOSE i \in 1..Len(t) : t[i] = CLOSE /\ \A j \in (i + 1)..Len(t) : t[j] # CLOSE
    IN  SubSeq(t, 1, m2.start - 1) \o block \o SubSeq(t, last + 1, Len(t))

\* ptext[:m2.start()] + new_block + ptext[m2.end():]
Splice(t, m2, block) ==
    SubSeq(t, 1, m2.start - 1) \o block \o SubSeq(t, m2.end + 1, Len(t))

\* ------------------------------------------------------------- the script
EmptyTable == BuildTable(<<>>)

\* lines 11-34: read the enumeration, extract the names, build the table
ReadOpcodes ==
    /\ pc = "opcodes"
    /\ IF EnumSearch(opcode_file).start = 0
       THEN /\ log' = Append(log, "Could not find Opcode enum")
            /\ exitCode' = 1
            /\ pc' = "done"
            /\ UNCHANGED <<names, index_to_name>>
       ELSE /\ names' = ExtractNames(opcode_file)
            /\ index_to_name' = BuildTable(names')
            /\ log' = Append(log, "Found opcodes")
            /\ pc' = "gen"
            /\ UNCHANGED exitCode
    /\ UNCHANGED <<opcode_file, gen_file, parser_file, run, gtext, ptext, written>>

\* lines 37-50: rewrite the generated file
FixGenerated ==
    /\ pc = "gen"
    /\ IF gen_file # NoFile
       THEN /\ gtext' = gen_file
            /\ gen_file' = re_sub(gen_file, index_to_name)
            /\ written' = written \cup {"gen_file"}
            /\ log' = Append(log, "Updated gen_file")
       ELSE /\ log' = Append(log, "gen_file does not exist, skipping")
            /\ UNCHANGED <<gtext, gen_file, written>>
    /\ pc' = "parser"
    /\ UNCHANGED <<opcode_file, parser_file, run, names, index_to_name, ptext, exitCode>>

\* lines 53-68: regenerate the OPCODE_NAMES block; falling off the end exits 0
UpdateParser ==
    /\ pc = "parser"
    /\ IF parser_file # NoFile
       THEN /\ ptext' = parser_file
            /\ LET m2 == ParserSearch(parser_file)
               IN  IF m2.start # 0
                   THEN /\ parser_file' = Splice(parser_file, m2, new_block(names))
                        /\ written' = written \cup {"parser_file"}
                        /\ log' = Append(log, "Updated parser_file")
                   ELSE /\ log' = Append(log, "Could not find OPCODE_NAMES map")
                        /\ UNCHANGED <<parser_file, written>>
       ELSE /\ log' = Append(log, "test_parser.cpp not found")
            /\ UNCHANGED <<ptext, parser_file, written>>
    /\ pc' = "done"
    /\ exitCode' = 0
    /\ UNCHANGED <<opcode_file, gen_file, run, names, index_to_name, gtext>>

\* the operator runs the script again on the files as the last run left them
Rerun ==
    /\ pc = "done"
    /\ run < MaxRuns
    /\ run' = run + 1
    /\ pc' = "opcodes"
    /\ names' = <<>>
    /\ index_to_name' = EmptyTable
    /\ gtext' = <<>>
    /\ ptext' = <<>>
    /\ written' = {}
    /\ log' = <<>>
    /\ exitCode' = -1
    /\ UNCHANGED <<opcode_file, gen_file, parser_file>>

Next == ReadOpcodes \/ FixGenerated \/ UpdateParser \/ Rerun

\* ------------------------------------------------------------ input files
SeqsUpTo(S, n) == UNION {[1..k -> S] : k \in 0..n}

RECURSIVE Flatten(_)
Flatten(ss) == IF ss = <<>> THEN <<>> ELSE Head(ss) \o Flatten(Tail(ss))

LineShapes ==
    { <<"A", COMMA>>,
      <<"B">>,
      <<SP, "B", SP, COMMA, SP, COMMENT, "A">>,
      <<COMMENT, SP, "B">>,
      <<SP>>,
      <<"A", COMMA, SP, "B", COMMA>> }

Openers == { <<ENUM, LBRACE>>, <<ENUM, SP, LBRACE, NL>>, <<ENUM, "x", LBRACE, NL>> }

Trailers == { <<NL>>, <<NL, ENUM, SP, LBRACE, SP, "B", SP, CLOSE, NL>> }

EnumTexts ==
    { o \o join(ls) \o <<NL, CLOSE>> \o tr :
        o \in Openers, ls \in SeqsUpTo(LineShapes, MaxLines), tr \in Trailers }

EnumOf(ls) == <<ENUM, SP, LBRACE, NL>> \o join(ls) \o <<NL, CLOSE, NL>>

FewEnumTexts ==
    { EnumOf(<<>>),
      EnumOf(<< <<"A", COMMA>>, <<"B", COMMA>> >>),
      EnumOf(<< <<"OP_", "1", COMMA>>, <<"A">> >>),
      EnumOf(<< <<"Opcode", COMMA>>, <<"B">> >>),
      <<"x", NL>> }

Pieces ==
    { <<"Opcode", "::", "OP_", "0">>, <<"Opcode", "::", "OP_", "1">>,
      <<"1">>, <<"x">>, <<"::", "OP_">> }

GenTexts == { Flatten(ps) : ps \in SeqsUpTo(Pieces, MaxPieces) }

FewGenFiles == { NoFile, <<"x", "Opcode", "::", "OP_", "1", SP, "Opcode", "::", "OP_", "0", "7">> }

ParserUnits == { HDR, CLOSE, "x", "e" }

ParserTexts == SeqsUpTo(ParserUnits, MaxParserLen)

OneParserFile == <<"x", HDR, NL, "e", NL, CLOSE, "y">>

InitLocals ==
    /\ pc = "opcodes"
    /\ run = 1
    /\ names = <<>>
    /\ index_to_name = EmptyTable
    /\ gtext = <<>>
    /\ ptext = <<>>
    /\ written = {}
    /\ log = <<>>
    /\ exitCode = -1

Init ==
    /\ opcode_file \in EnumTexts
    /\ gen_file \in FewGenFiles
    /\ parser_file = OneParserFile
    /\ InitLocals

InitRewrite ==
    /\ opcode_file \in FewEnumTexts
    /\ gen_file \in GenTexts \cup {NoFile}
    /\ parser_file = OneParserFile
    /\ InitLocals

InitRegen ==
    /\ opcode_file \in FewEnumTexts
    /\ gen_file \in FewGenFiles
    /\ parser_file \in ParserTexts \cup {NoFile}
    /\ InitLocals

Spec == Init /\ [][Next]_vars
SpecRewrite == InitRewrite /\ [][Next]_vars
SpecRegen == InitRegen /\ [][Next]_vars

TypeOK ==
    /\ pc \in {"opcodes", "gen", "parser", "done"}
    /\ run \in 1..MaxRuns
    /\ exitCode \in {-1, 0, 1}
    /\ written \subseteq {"gen_file", "parser_file"}
    /\ DOMAIN index_to_name = 0..(Len(names) - 1)

\* ------------------------------------------- vocabulary of the properties
IdUnits == {"A", "B", "OP_", "Opcode"} \cup Digits

\* maximal runs of identifier units of s, in order
RECURSIVE IdRuns(_)
IdRuns(s) ==
    IF s = <<>> THEN <<>>
    ELSE IF Head(s) \notin IdUnits THEN IdRuns(Tail(s))
    ELSE LET k == IndexNotFrom(s, 1, IdUnits)
         IN  IF k = 0 THEN <<s>>
             ELSE <<SubSeq(s, 1, k - 1)>> \o IdRuns(SubSeq(s, k, Len(s)))

\* the identifiers a declaration block declares, whatever their layout:
\* line comments removed, every remaining identifier in order
RECURSIVE IdsOfLines(_)
IdsOfLines(ls) ==
    IF ls = <<>> THEN <<>>
    ELSE IdRuns(RemoveComment(Head(ls))) \o IdsOfLines(Tail(ls))

DeclaredIds(text) == IdsOfLines(splitlines(EnumBody(text)))

HasDuplicate(ns) == \E i, j \in 1..Len(ns) : i # j /\ ns[i] = ns[j]

\* number of declaration blocks in the enumeration source
RECURSIVE EnumBlocksFrom(_, _)
EnumBlocksFrom(text, from) ==
    LET m == EnumSearchFrom(text, from)
    IN  IF m.start = 0 THEN 0 ELSE 1 + EnumBlocksFrom(text, m.close + 1)

EnumBlockCount(text) == EnumBlocksFrom(text, 1)

\* number of OPCODE_NAMES blocks in a debug-table text
RECURSIVE ParserBlocksFrom(_, _)
ParserBlocksFrom(t, from) ==
    LET m == ParserSearchFrom(t, from)
    IN  IF m.start = 0 THEN 0 ELSE 1 + ParserBlocksFrom(t, m.end + 1)

ParserBlockCount(t) == ParserBlocksFrom(t, 1)

\* a line holding one identifier, an optional trailing comma, an optional comment
OneIdLine(line) ==
    LET l == strip(RemoveComment(line))
    IN  \/ l = <<>>
        \/ \E k \in 1..Len(l) :
              /\ \A i \in 1..k : l[i] \in IdUnits
              /\ lstrip(SubSeq(l, k + 1, Len(l))) \in {<<>>, <<COMMA>>}

OneIdPerLine(text) ==
    LET ls == splitlines(EnumBody(text)) IN \A i \in 1..Len(ls) : OneIdLine(ls[i])

\* the lexemes of a text: "I" for an identifier, "," for a comma, "?" otherwise
RECURSIVE Lexemes(_)
Lexemes(s) ==
    IF s = <<>> THEN <<>>
    ELSE IF Head(s) \in WS THEN Lexemes(Tail(s))
    ELSE IF Head(s) = COMMA THEN <<COMMA>> \o Lexemes(Tail(s))
    ELSE IF Head(s) \in IdUnits
         THEN LET k == IndexNotFrom(s, 1, IdUnits)
              IN  <<"I">> \o (IF k = 0 THEN <<>> ELSE Lexemes(SubSeq(s, k, Len(s))))
    ELSE <<"?">> \o Lexemes(Tail(s))

RECURSIVE LexemesOfLines(_)
LexemesOfLines(ls) ==
    IF ls = <<>> THEN <<>>
    ELSE Lexemes(RemoveComment(Head(ls))) \o LexemesOfLines(Tail(ls))

\* a valid enumerator list: identifiers separated by single commas, with an
\* optional trailing comma, laid out on lines in any way
ValidBlock(text) ==
    LET lx == LexemesOfLines(splitlines(EnumBody(text)))
    IN  \A i \in 1..Len(lx) : lx[i] = (IF i % 2 = 1 THEN "I" ELSE COMMA)

SingleValidBlock(text) ==
    /\ EnumBlockCount(text) = 1
    /\ ValidBlock(text)
    /\ ~HasDuplicate(DeclaredIds(text))

TableOf(ns, table) ==
    /\ DOMAIN table = 0..(Len(ns) - 1)
    /\ \A i \in 0..(Len(ns) - 1) : table[i] = ns[i + 1]

Extracted == pc \in {"gen", "parser"} \/ (pc = "done" /\ exitCode = 0)

GenWritten == "gen_file" \in written
ParserWritten == "parser_file" \in written
ParserRead == pc = "done" /\ exitCode = 0 /\ parser_file # NoFile

\* placeholders of a text and where their replacements land
Matches(t) == {p \in 1..Len(t) : PlaceholderAt(t, p)}

InMatch(t, p) == \E m \in Matches(t) : m <= p /\ p <= PlaceholderEnd(t, m)

RECURSIVE SumDelta(_, _, _)
SumDelta(t, f, S) ==
    IF S = {} THEN 0
    ELSE LET m == CHOOSE m \in S : TRUE
         IN  Len(f[m]) - (PlaceholderEnd(t, m) - m + 1) + SumDelta(t, f, S \ {m})

Shift(t, f, p) == SumDelta(t, f, {m \in Matches(t) : m < p})

\* out is t with every placeholder m replaced by f[m] and nothing else changed
SubstitutedBy(t, f, out) ==
    /\ Len(out) = Len(t) + Shift(t, f, Len(t) + 1)
    /\ \A p \in 1..Len(t) :
          LET q == p + Shift(t, f, p)
          IN  IF p \in Matches(t)
              THEN SubSeq(out, q, q + Len(f[p]) - 1) = f[p]
              ELSE InMatch(t, p) \/ out[q] = t[p]

\* a numeral without its leading zeros
RECURSIVE Canonical(_)
Canonical(ds) == IF Len(ds) > 1 /\ Head(ds) = "0" THEN Canonical(Tail(ds)) ELSE ds

RECURSIVE Value(_)
Value(ds) == IF ds = <<>> THEN 0 ELSE 10 * Value(SubSeq(ds, 1, Len(ds) - 1)) + DigitVal(ds[Len(ds)])

OutOfRange(t, m) == Value(Numeral(t, m)) >= Len(names)

\* ------------------------------------------------------------------ claims
\* C1: an enumeration whose declaration block contains the same name twice
\* makes the run fail (non-zero exit) and write neither target file.
C1_DuplicateAborts ==
    (EnumSearch(opcode_file).start # 0 /\ HasDuplicate(DeclaredIds(opcode_file)))
        => (written = {} /\ (pc = "done" => exitCode # 0))

\* C2: a second run of the Rewriter on the output of a first run, with the
\* same table, writes back exactly the text it read.
C2_RewriteIdempotent ==
    (run >= 2 /\ GenWritten) => gen_file = gtext

\* C3 (as stated): every placeholder whose numeral is >= N is replaced by a
\* fallback cast holding the numeral digit for digit as it was written.
C3_FallbackVerbatim ==
    GenWritten =>
        SubstitutedBy(gtext,
            [m \in Matches(gtext) |->
                IF OutOfRange(gtext, m)
                THEN <<CAST>> \o Numeral(gtext, m) \o <<")">>
                ELSE repl_op(Numeral(gtext, m), index_to_name)],
            gen_file)

\* C3 (amended): every placeholder whose numeral is >= N is replaced by a
\* fallback cast holding the decimal value of the numeral, that is the numeral
\* without its leading zeros, and never by a symbolic reference.
C3_FallbackValue ==
    GenWritten =>
        SubstitutedBy(gtext,
            [m \in Matches(gtext) |->
                IF OutOfRange(gtext, m)
                THEN <<CAST>> \o Canonical(Numeral(gtext, m)) \o <<")">>
                ELSE repl_op(Numeral(gtext, m), index_to_name)],
            gen_file)

C3_Witness ==
    /\ GenWritten
    /\ \E m \in Matches(gtext) :
          /\ OutOfRange(gtext, m)
          /\ Len(Numeral(gtext, m)) > 1
          /\ Head(Numeral(gtext, m)) = "0"
    /\ \E m \in Matches(gtext) : ~OutOfRange(gtext, m)

\* C4: when the block is found and the debug-table file is written, the text
\* before the block's opening delimiter and the text after its closing
\* delimiter are what they were; the new block sits exactly between them.
C4_BlockReplacementPreserves ==
    ParserWritten =>
        LET s == IndexFrom(ptext, 1, {HDR})
            e == IndexFrom(ptext, s + 1, {CLOSE})
            after == Len(ptext) - e
            e2 == Len(parser_file) - after
        IN  /\ s # 0 /\ e # 0
            /\ e2 > s
            /\ SubSeq(parser_file, 1, s - 1) = SubSeq(ptext, 1, s - 1)
            /\ SubSeq(parser_file, e2 + 1, Len(parser_file)) = SubSeq(ptext, e + 1, Len(ptext))
            /\ parser_file[s] = HDR
            /\ parser_file[e2] = CLOSE
            /\ \A i \in (s + 1)..(e2 - 1) : parser_file[i] \notin {HDR, CLOSE}

C4_Witness ==
    /\ ParserWritten
    /\ LET s == IndexFrom(ptext, 1, {HDR})
           e == IndexFrom(ptext, s + 1, {CLOSE})
       IN  /\ s > 1
           /\ e < Len(ptext)
           /\ \E i \in (e + 1)..Len(ptext) : ptext[i] \in {HDR, CLOSE}
    /\ parser_file # ptext

\* C5 (as stated): for a single valid block of N unique identifiers, whatever
\* their layout on lines, the extracted names are those identifiers in
\* declaration order and the table maps i to names[i] for i in 0..N-1.
C5_ExtractAnyLayout ==
    (Extracted /\ SingleValidBlock(opcode_file))
        => (names = DeclaredIds(opcode_file) /\ TableOf(DeclaredIds(opcode_file), index_to_name))

\* C5 (amended): the same, for blocks in which every non-blank line holds one
\* identifier, optionally followed by a trailing comma and a line comment.
C5_ExtractOnePerLine ==
    (Extracted /\ SingleValidBlock(opcode_file) /\ OneIdPerLine(opcode_file))
        => (names = DeclaredIds(opcode_file) /\ TableOf(DeclaredIds(opcode_file), index_to_name))

C5_Witness ==
    /\ Extracted
    /\ SingleValidBlock(opcode_file)
    /\ OneIdPerLine(opcode_file)
    /\ Len(names) >= 2
    /\ \E i \in 1..Len(EnumBody(opcode_file)) : EnumBody(opcode_file)[i] = COMMENT
    /\ \E i \in 1..Len(EnumBody(opcode_file)) : EnumBody(opcode_file)[i] = COMMA

\* C6: a finished run has a non-zero exit code exactly when it reported a hard
\* error (no enumeration block, or no OPCODE_NAMES block); skipped files do
\* not count.
C6_ExitStatus ==
    pc = "done" =>
        (exitCode # 0 <=>
            \E i \in 1..Len(log) :
                log[i] \in {"Could not find Opcode enum", "Could not find OPCODE_NAMES map"})

\* C7: an enumeration source with no declaration block, or with more than
\* one, makes the run fail: no table is built, no file is written, and the
\* exit code is non-zero.
C7_AmbiguousEnumAborts ==
    EnumBlockCount(opcode_file) # 1
        => (written = {} /\ names = <<>> /\ index_to_name = EmptyTable
            /\ (pc = "done" => exitCode # 0))

\* C8: a debug-table file with zero or more than one OPCODE_NAMES block is
\* reported as not found and is not written, while the rewrite of the
\* generated file in the same run stands.
C8_BlockNotFound ==
    (ParserRead /\ ParserBlockCount(ptext) # 1)
        => /\ log[Len(log)] = "Could not find OPCODE_NAMES map"
           /\ ~ParserWritten
           /\ parser_file = ptext
           /\ (GenWritten => gen_file = re_sub(gtext, index_to_name))

\* C9: the regenerated block is the header, then one entry
\* {Opcode::name, "name"} per name, in the order of the table, then the
\* closing delimiter, whatever the block held before.
C9_BlockIsTable ==
    ParserWritten =>
        LET s == IndexFrom(ptext, 1, {HDR})
            e == IndexFrom(ptext, s + 1, {CLOSE})
            e2 == Len(parser_file) - (Len(ptext) - e)
            ls == splitlines(SubSeq(parser_file, s + 2, e2 - 2))
        IN  /\ e2 >= s + 3
            /\ SubSeq(parser_file, s, s + 1) = <<HDR, NL>>
            /\ SubSeq(parser_file, e2 - 1, e2) = <<NL, CLOSE>>
            /\ Len(ls) = Len(names)
            /\ \A i \in 1..Len(names) :
                  ls[i] = <<"    ", "{", "Opcode", "::">> \o index_to_name[i - 1]
                          \o <<",", SP, "\"">> \o index_to_name[i - 1] \o <<"\"", "}", ",">>

C9_Witness ==
    /\ ParserWritten
    /\ Len(names) >= 2
    /\ names[1] # names[2]
    /\ LET s == IndexFrom(ptext, 1, {HDR})
           e == IndexFrom(ptext, s + 1, {CLOSE})
       IN  e > s + 2

\* C10: every placeholder whose numeral denotes an index i < N is replaced by
\* Opcode::names[i] (zero-based), in one pass: replacements are laid end to
\* end with the untouched text between them, and no other text changes.
C10_SymbolicSubstitution ==
    GenWritten =>
        SubstitutedBy(gtext,
            [m \in Matches(gtext) |->
                IF OutOfRange(gtext, m)
                THEN repl_op(Numeral(gtext, m), index_to_name)
                ELSE <<"Opcode", "::">> \o names[Value(Numeral(gtext, m)) + 1]],
            gen_file)

C10_Witness ==
    /\ GenWritten
    /\ Cardinality({m \in Matches(gtext) : ~OutOfRange(gtext, m)}) >= 2
    /\ \E p \in 1..Len(gtext) : ~InMatch(gtext, p)
    /\ gen_file # gtext

====
